---- MODULE Spec2Model ----
(***************************************************************************)
(* SentinelARC: the search agent, the synthesis agent, the FastAPI front  *)
(* door (async_main.py), the orchestrator's task table and the dashboard's *)
(* report viewer (streamlit_app.py), as state machines.                    *)
(*                                                                         *)
(* All agents run as coroutines of ONE asyncio event loop                  *)
(* (async_main.py:81).  `loop` names the coroutine that occupies the       *)
(* loop's thread: a coroutine keeps the thread until it reaches an await   *)
(* that suspends (a bus send, asyncio.sleep) or returns.  requests.get     *)
(* and ollama.chat are synchronous calls: the caller keeps the thread      *)
(* while it is inside them.                                                *)
(***************************************************************************)
EXTENDS Integers, Sequences, FiniteSets, TLC

VARIABLES
    loop,      \* "idle", or the agent whose coroutine holds the event loop's thread
    traffic,   \* which agents senders address in this run: "search", "synthesis", "both", "none"
    pending,   \* per agent: messages waiting in its queue
    search,    \* AsyncSearchAgent: the handling of its current message
    synth,     \* AsyncSynthesisAgent: the handling of its current message
    api,       \* async_main.py: `state`, initialize_system and the HTTP endpoints
    orch,      \* the orchestrator: its task table and what it has sent
    dash       \* streamlit_app.py: the reports directory and the viewer's last call

vars == <<loop, traffic, pending, search, synth, api, orch, dash>>

(* ------------------------------ bounds --------------------------------- *)
\* Capacity of an agent's queue in the model.
MaxPending == 1
\* Longest extracted_content list an assignment carries.
MaxSources == 2

(* --------------------------- values ------------------------------------ *)
\* dict.get on a missing key / Python's None.
Absent == "<absent>"
None == "<None>"

Agents == {"search_agent", "synthesis_agent"}

TASK_ASSIGN == "TASK_ASSIGN"
STATUS_UPDATE == "STATUS_UPDATE"
DATA_SUBMIT == "DATA_SUBMIT"
LOG_BROADCAST == "LOG_BROADCAST"
ACPMsgType == {TASK_ASSIGN, STATUS_UPDATE, DATA_SUBMIT, LOG_BROADCAST}

\* The text the search agent submits for an empty result set (line 69), and
\* the text it builds from a non-empty one (lines 71-94).
NoPapersFound == "No relevant academic papers found."
PaperListing == "**Title**: ..."

Range(seq) == { seq[k] : k \in 1..Len(seq) }

\* Python truthiness of a str-or-None value.
Truthy(v) == v \notin {None, Absent, ""}

\* dict.get(key, default)
Get(v, default) == IF v = Absent THEN default ELSE v

\* a or b
Or(a, b) == IF Truthy(a) THEN a ELSE b

(* ----------------------- messages an agent sends ----------------------- *)
\* self.create_message(receiver_id=..., msg_type=..., payload=...)
create_message(sender, receiver, topic, type, payload) ==
    [sender_id |-> sender, receiver_id |-> receiver, topic |-> topic,
     msg_type |-> type, payload |-> payload]

orchestrator_id == "orchestrator"

(* ------------------------ messages an agent receives ------------------- *)
\* An incoming message: its msg_type, whether its payload validates against
\* the pydantic model the handler parses it with, and the payload's fields
\* (task_type or data_type in `kind`, task_data or data in `data`).
TaskData(query, task_id, content, ec) ==
    [query |-> query, task_id |-> task_id, content |-> content,
     extracted_content |-> ec]

Incoming(type, valid, kind, tid, data) ==
    [msg_type |-> type, valid |-> valid, kind |-> kind, task_id |-> tid,
     data |-> data]

NoData == TaskData(Absent, Absent, Absent, <<>>)
NoMessage == Incoming("none", FALSE, "none", None, NoData)

\* Messages of the types a handler does not look into.
OtherMessages ==
    { Incoming(t, TRUE, "none", None, NoData) : t \in {STATUS_UPDATE, LOG_BROADCAST} }

(* ============================ search agent ============================= *)

\* What requests.get returns: the status code and, for a 200, the JSON body
\* ("empty": no papers; "papers": a non-empty list; "not_json": json() raises).
Response(status, body) == [status_code |-> status, body |-> body]
NoResponse == Response(0, "none")
Responses ==
    { Response(200, b) : b \in {"empty", "papers", "not_json"} }
    \cup { Response(s, "error") : s \in {429, 500} }

SearchInputs ==
    { Incoming(TASK_ASSIGN, v, k, None, TaskData(q, t, Absent, <<>>)) :
        v \in BOOLEAN, k \in {"web_search", "synthesize_research"},
        q \in {Absent, "q"}, t \in {Absent, "t1"} }
    \cup { Incoming(DATA_SUBMIT, TRUE, "search_results", "t1", NoData) }
    \cup OtherMessages

\* One extracted_content entry: {"extraction_successful": ..., "content": ...}.
\*   "ok":        extraction_successful, content a string
\*   "failed":    extraction_successful false or missing
\*   "nocontent": extraction_successful, "content": None
EntryKinds == {"ok", "failed", "nocontent"}

\* content.get("extraction_successful", False)
extraction_successful(c) == c \in {"ok", "nocontent"}

RECURSIVE Successful(_)
\* [c for c in extracted_content if c.get("extraction_successful", False)]
Successful(ec) ==
    IF ec = <<>> THEN <<>>
    ELSE (IF extraction_successful(Head(ec)) THEN <<Head(ec)>> ELSE <<>>)
         \o Successful(Tail(ec))

EcLists == UNION { [1..n -> EntryKinds] : n \in 0..MaxSources }

SynthInputs ==
    { Incoming(TASK_ASSIGN, TRUE, "synthesize_research", None,
               TaskData(q, t, Absent, ec)) :
        q \in {Absent, "", "q"}, t \in {Absent, "t1"}, ec \in EcLists }
    \cup { Incoming(TASK_ASSIGN, v, k, None, NoData) :
             v \in BOOLEAN, k \in {"synthesize_research", "web_search"} }
    \cup { Incoming(DATA_SUBMIT, TRUE, "search_results", t,
                    TaskData(q, Absent, c, <<>>)) :
             t \in {None, "t2"}, q \in {None, "q"},
             c \in {NoPapersFound, PaperListing} }
    \cup { Incoming(DATA_SUBMIT, v, k, "t2", NoData) :
             v \in BOOLEAN, k \in {"search_results", "extracted_content"} }
    \cup OtherMessages

\* The messages senders address to agent `a` in this run: all traffic goes to
\* the search agent alone, or to the synthesis agent alone, or both agents are
\* busy at once with one assignment each.
InputsOf(a) ==
    CASE traffic = "search" -> IF a = "search_agent" THEN SearchInputs ELSE {}
      [] traffic = "synthesis" -> IF a = "synthesis_agent" THEN SynthInputs ELSE {}
      [] traffic = "both" ->
           IF a = "search_agent"
           THEN {Incoming(TASK_ASSIGN, TRUE, "web_search", None,
                          TaskData("q", "t1", Absent, <<>>))}
           ELSE {Incoming(TASK_ASSIGN, TRUE, "synthesize_research", None,
                          TaskData("q", "t1", Absent, <<"ok">>))}
      [] OTHER -> {}

SearchIdle ==
    [pc |-> "idle", msg |-> NoMessage, requests |-> 0, first_status |-> 0,
     response |-> NoResponse, content |-> None, out |-> <<>>,
     raised |-> "none", escaped |-> FALSE]

\* handle_message's `except Exception` (lines 26-27): the error is logged and
\* handle_message returns normally.
Search_handle_message_except(s) == [s EXCEPT !.pc = "done"]

\* _perform_semantic_scholar_search's `except Exception` (lines 111-113):
\* logs and re-raises; the caller's handler takes over.  Nothing is sent.
Search_perform_except(s, what) ==
    Search_handle_message_except([s EXCEPT !.raised = what])

\* Lines 20-31 and 54: handle_message up to the first requests.get.
Search_handle_message(msg) ==
    LET s == [SearchIdle EXCEPT !.msg = msg] IN
    IF msg.msg_type # TASK_ASSIGN THEN [s EXCEPT !.pc = "done"]
    ELSE IF ~msg.valid
         THEN Search_handle_message_except([s EXCEPT !.raised = "validation"])
    ELSE IF msg.kind # "web_search" THEN [s EXCEPT !.pc = "done"]
    ELSE [s EXCEPT !.pc = "request", !.requests = 1]

\* The dispatch loop hands the next queued message to handle_message.
SearchReceive ==
    /\ loop = "idle"
    /\ search.pc = "idle"
    /\ pending["search_agent"] > 0
    /\ \E msg \in InputsOf("search_agent") : search' = Search_handle_message(msg)
    /\ pending' = [pending EXCEPT !["search_agent"] = @ - 1]
    /\ loop' = "search_agent"
    /\ UNCHANGED <<traffic, synth, api, orch, dash>>

\* Lines 64-96: the content built from a 200 response.
Search_content(body) == IF body = "empty" THEN NoPapersFound ELSE PaperListing

\* The 429 branch taken after every request, not only after the first.
Search_retry_again(s, r, retry) ==
    LET s1 == [s EXCEPT !.response = r,
                        !.first_status = IF retry THEN r.status_code ELSE @] IN
    IF r.status_code = 429 THEN [s1 EXCEPT !.pc = "sleep"]
    ELSE IF r.status_code # 200 THEN Search_perform_except(s1, "http_status")
    ELSE IF r.body = "not_json" THEN Search_perform_except(s1, "json")
    ELSE [s1 EXCEPT !.pc = "send", !.content = Search_content(r.body)]

\* Lines 56-96, after a requests.get returned `r`: the 429 branch exists only
\* for the first request (`retry`), then the status check and the body.
Search_after_response(s, r, retry) ==
    LET s1 == [s EXCEPT !.response = r,
                        !.first_status = IF retry THEN r.status_code ELSE @] IN
    IF retry /\ r.status_code = 429 THEN [s1 EXCEPT !.pc = "sleep"]
    ELSE IF r.status_code # 200 THEN Search_perform_except(s1, "http_status")
    ELSE IF r.body = "not_json" THEN Search_perform_except(s1, "json")
    ELSE [s1 EXCEPT !.pc = "send", !.content = Search_content(r.body)]

\* requests.get (line 54 or 59) returns a response, or raises (timeout,
\* connection error).  The coroutine held the thread for the whole call.
SearchResponse ==
    /\ loop = "search_agent"
    /\ search.pc = "request"
    /\ \/ \E r \in Responses :
            search' = Search_after_response(search, r, search.requests = 1)
       \/ search' = Search_perform_except(search, "request")
    /\ UNCHANGED <<loop, traffic, pending, synth, api, orch, dash>>

\* Line 58: await asyncio.sleep(60) suspends the coroutine.
SearchSleep ==
    /\ loop = "search_agent"
    /\ search.pc = "sleep"
    /\ search' = [search EXCEPT !.pc = "sleeping"]
    /\ loop' = "idle"
    /\ UNCHANGED <<traffic, pending, synth, api, orch, dash>>

\* Line 59: the sleep is over; the second requests.get is issued.
SearchRetry ==
    /\ loop = "idle"
    /\ search.pc = "sleeping"
    /\ search' = [search EXCEPT !.pc = "request", !.requests = @ + 1]
    /\ loop' = "search_agent"
    /\ UNCHANGED <<traffic, pending, synth, api, orch, dash>>

\* Lines 98-107: the DataSubmit the search agent builds.
Search_data_message(s) ==
    create_message("search_agent", orchestrator_id, None, DATA_SUBMIT,
        [data_type |-> "search_results",
         data |-> [query |-> Get(s.msg.data.query, None), content |-> s.content],
         source |-> "semantic_scholar",
         task_id |-> Get(s.msg.data.task_id, "unknown")])

\* Line 108: await self.send_message(data_message); the publish succeeds or
\* raises, and the await gives the thread back to the loop.
SearchSend ==
    /\ loop = "search_agent"
    /\ search.pc = "send"
    /\ \/ search' = [search EXCEPT !.pc = "done",
                                   !.out = Append(@, Search_data_message(search))]
       \/ search' = Search_perform_except(search, "send")
    /\ loop' = "idle"
    /\ UNCHANGED <<traffic, pending, synth, api, orch, dash>>

\* handle_message has returned; the dispatch loop waits for the next message.
SearchReturn ==
    /\ loop \in {"idle", "search_agent"}
    /\ search.pc = "done"
    /\ ~search.escaped
    /\ search' = SearchIdle
    /\ loop' = "idle"
    /\ UNCHANGED <<traffic, pending, synth, api, orch, dash>>

(* =========================== synthesis agent =========================== *)

\* A text is the sequence of its whitespace-separated words; fixed sentences
\* are cut to their leading words.
WordCount(text) == Len(text)

RECURSIVE Join(_)
\* "\n\n".join(parts), as words
Join(parts) == IF parts = <<>> THEN <<>> ELSE Head(parts) \o Join(Tail(parts))

SynthIdle ==
    [pc |-> "idle", msg |-> NoMessage, path |-> "none", query |-> None,
     task_id |-> None, i |-> 0, report_sections |-> <<>>, full_report |-> <<>>,
     out |-> <<>>, tried |-> <<>>, raised |-> "none", escaped |-> FALSE]

\* The places _synthesize_research_report's try block (lines 77-146) covers.
InTry ==
    {"status_starting", "status_introduction", "call_introduction",
     "llm_introduction", "status_sources", "source_loop", "llm_source",
     "status_synthesis", "call_conclusion", "llm_conclusion",
     "status_metadata", "build_report", "status_complete", "send_report",
     "send_log"}

\* handle_message without its try/except: the exception leaves it.
Synth_handle_message_escapes(s) == [s EXCEPT !.pc = "done", !.escaped = TRUE]

\* handle_message's `except Exception` (lines 47-48): logged, returns normally.
Synth_handle_message_except(s) == [s EXCEPT !.pc = "done"]

\* Where an exception raised at s.pc is caught:
\*   inside the try of _synthesize_research_report: lines 148-151, which send
\*     the error status with the task's id;
\*   at line 72 or 151 (the error status itself failed): it leaves
\*     _synthesize_research_report; on the TaskAssign path
\*     _handle_task_assignment catches it (lines 58-60) and sends an error
\*     status without a task id, on the DataSubmit path handle_message does;
\*   at line 53 (validation): lines 58-60;
\*   at line 42 (validation) or line 60: handle_message (lines 47-48).
Synth_raise(s, what) ==
    LET s1 == [s EXCEPT !.raised = IF @ = "none" THEN what ELSE @] IN
    IF s.pc \in InTry THEN [s1 EXCEPT !.pc = "except_send"]
    ELSE IF s.pc \in {"noquery_send", "except_send"} /\ s.path = "task_assign"
         THEN [s1 EXCEPT !.pc = "assign_except_send"]
    ELSE IF s.pc = "validate_assign" THEN [s1 EXCEPT !.pc = "assign_except_send"]
    ELSE Synth_handle_message_except(s1)

\* Lines 62-75: _synthesize_research_report up to its try block.
synthesize_research_report(s, task_data, task_id) ==
    LET query == Get(task_data.query, "unknown")
        tid == Or(task_id, Get(task_data.task_id, "unknown"))
        s1 == [s EXCEPT !.query = query, !.task_id = tid]
    IN IF ~Truthy(query) THEN [s1 EXCEPT !.pc = "noquery_send"]
       ELSE [s1 EXCEPT !.pc = "status_starting"]

\* Lines 50-57: _handle_task_assignment.
handle_task_assignment(s) ==
    LET s1 == [s EXCEPT !.path = "task_assign", !.pc = "validate_assign"] IN
    IF ~s.msg.valid THEN Synth_raise(s1, "validation")
    ELSE IF s.msg.kind = "synthesize_research"
         THEN synthesize_research_report(s1, s.msg.data,
                                         Get(s.msg.data.task_id, None))
    ELSE [s1 EXCEPT !.pc = "done"]

\* Lines 36-46: handle_message.
Synth_handle_message(msg) ==
    LET s == [SynthIdle EXCEPT !.msg = msg, !.pc = "dispatch"] IN
    IF msg.msg_type = TASK_ASSIGN THEN handle_task_assignment(s)
    ELSE IF msg.msg_type = DATA_SUBMIT
         THEN IF ~msg.valid THEN Synth_raise(s, "validation")
              ELSE IF msg.kind = "search_results"
                   THEN synthesize_research_report(
                            [s EXCEPT !.path = "data_submit"], msg.data, msg.task_id)
              ELSE [s EXCEPT !.pc = "done"]
    ELSE [s EXCEPT !.pc = "done"]

SynthReceive ==
    /\ loop = "idle"
    /\ synth.pc = "idle"
    /\ pending["synthesis_agent"] > 0
    /\ \E msg \in InputsOf("synthesis_agent") : synth' = Synth_handle_message(msg)
    /\ pending' = [pending EXCEPT !["synthesis_agent"] = @ - 1]
    /\ loop' = "synthesis_agent"
    /\ UNCHANGED <<traffic, search, api, orch, dash>>

\* Lines 270-280: the StatusUpdate _send_status_update builds.
status_message(status, progress, task_id) ==
    create_message("synthesis_agent", orchestrator_id, None, STATUS_UPDATE,
        [status |-> status, progress |-> progress, task_id |-> task_id])

\* Lines 283-284: _send_error_status.
error_status_message(error_message, task_id) ==
    status_message(<<"synthesis_failed:">> \o error_message, 0, task_id)

\* The announcements with the progress of two of them exchanged.
StatusAt_exchanged(pc) ==
    CASE pc = "status_starting" ->
           [status |-> "synthesis_starting", progress |-> 10, next |-> "status_introduction"]
      [] pc = "status_introduction" ->
           [status |-> "creating_introduction", progress |-> 20, next |-> "call_introduction"]
      [] pc = "status_sources" ->
           [status |-> "analyzing_sources", progress |-> 70, next |-> "source_loop"]
      [] pc = "status_synthesis" ->
           [status |-> "creating_synthesis", progress |-> 40, next |-> "call_conclusion"]
      [] pc = "status_metadata" ->
           [status |-> "adding_metadata", progress |-> 90, next |-> "build_report"]
      [] pc = "status_complete" ->
           [status |-> "synthesis_complete", progress |-> 100, next |-> "send_report"]

\* The progress announcements of lines 79-113: the status, its progress and
\* the place the coroutine continues at.
StatusAt(pc) ==
    CASE pc = "status_starting" ->
           [status |-> "synthesis_starting", progress |-> 10, next |-> "status_introduction"]
      [] pc = "status_introduction" ->
           [status |-> "creating_introduction", progress |-> 20, next |-> "call_introduction"]
      [] pc = "status_sources" ->
           [status |-> "analyzing_sources", progress |-> 40, next |-> "source_loop"]
      [] pc = "status_synthesis" ->
           [status |-> "creating_synthesis", progress |-> 70, next |-> "call_conclusion"]
      [] pc = "status_metadata" ->
           [status |-> "adding_metadata", progress |-> 90, next |-> "build_report"]
      [] pc = "status_complete" ->
           [status |-> "synthesis_complete", progress |-> 100, next |-> "send_report"]

\* await self.send_message(m) at s.pc: the message is handed to the bus
\* (`tried`); the publish succeeds (`out`) and the coroutine goes on at
\* `next`, or it raises.
Synth_send_outcomes(s, m, next) ==
    { [s EXCEPT !.pc = next, !.tried = Append(@, m), !.out = Append(@, m)],
      Synth_raise([s EXCEPT !.tried = Append(@, m)], "send") }

StatusPlaces ==
    {"status_starting", "status_introduction", "status_sources",
     "status_synthesis", "status_metadata", "status_complete"}

\* await self._send_status_update(...): the publish succeeds or raises, and
\* the await gives the thread back to the loop.
SynthSendStatus ==
    /\ loop \in {"idle", "synthesis_agent"}
    /\ synth.pc \in StatusPlaces
    /\ LET st == StatusAt(synth.pc) IN
       synth' \in Synth_send_outcomes(
                     [synth EXCEPT !.i = IF st.next = "source_loop" THEN 1 ELSE @],
                     status_message(<<st.status>>, st.progress, synth.task_id),
                     st.next)
    /\ loop' = "idle"
    /\ UNCHANGED <<traffic, pending, search, api, orch, dash>>

\* Lines 85 and 97: after the status went out the coroutine runs on into
\* ollama.chat, a synchronous call: it holds the thread until chat returns.
\* _create_conclusion first slices the content of the first three successful
\* entries (line 219), which raises on a None content.
SynthCallLlm ==
    /\ loop \in {"idle", "synthesis_agent"}
    /\ synth.pc \in {"call_introduction", "call_conclusion"}
    /\ synth' =
         IF synth.pc = "call_introduction"
         THEN [synth EXCEPT !.pc = "llm_introduction"]
         ELSE IF \E k \in 1..Len(Successful(synth.msg.data.extracted_content)) :
                    /\ k <= 3
                    /\ Successful(synth.msg.data.extracted_content)[k] = "nocontent"
              THEN Synth_raise(synth, "data")
         ELSE [synth EXCEPT !.pc = "llm_conclusion"]
    /\ loop' = "synthesis_agent"
    /\ UNCHANGED <<traffic, pending, search, api, orch, dash>>

\* Lines 90-93 and 184-189: the loop over extracted_content.  A successful
\* entry is analysed: line 186 slices its content (a None content raises),
\* then ollama.chat is called.
SynthSourceLoop ==
    /\ loop \in {"idle", "synthesis_agent"}
    /\ synth.pc = "source_loop"
    /\ LET ec == synth.msg.data.extracted_content IN
       synth' =
         IF synth.i > Len(ec) THEN [synth EXCEPT !.pc = "status_synthesis"]
         ELSE IF ~extraction_successful(ec[synth.i]) THEN [synth EXCEPT !.i = @ + 1]
         ELSE IF ec[synth.i] = "nocontent" THEN Synth_raise(synth, "data")
         ELSE [synth EXCEPT !.pc = "llm_source"]
    /\ loop' = "synthesis_agent"
    /\ UNCHANGED <<traffic, pending, search, api, orch, dash>>

\* What ollama.chat does: it returns text, returns text that strips to the
\* empty string, or raises.
LlmResults == {"text", "empty", "raise"}

\* response['message']['content'].strip()
LlmText(result, text) == IF result = "empty" THEN <<>> ELSE <<text>>

\* The section each generator returns: the model's text, or the fallback
\* text of its `except Exception` (lines 178-180, 210-212, 244-246).
create_introduction(query, result) ==
    <<"##", "Introduction">>
    \o (IF result # "raise" THEN LlmText(result, "llm:introduction")
        ELSE <<"This", "report", "investigates:", query, "...">>)

create_source_analysis(index, result) ==
    <<"##", "Source", ToString(index), "title", "[Link](url)">>
    \o (IF result # "raise" THEN LlmText(result, "llm:analysis")
        ELSE <<"Summary", "generation", "failed", "...">>)

create_conclusion(query, ec, result) ==
    <<"##", "Synthesis", "and", "Conclusions">>
    \o (IF result # "raise" THEN LlmText(result, "llm:conclusion")
        ELSE <<"Based", "on", ToString(Len(Successful(ec))), "sources,", query, "...">>)

\* Lines 86, 93, 98: the section is appended and the coroutine goes on.
Synth_llm_section(s, result) ==
    CASE s.pc = "llm_introduction" ->
           [s EXCEPT !.pc = "status_sources",
                     !.report_sections = Append(@, create_introduction(s.query, result))]
      [] s.pc = "llm_source" ->
           [s EXCEPT !.pc = "source_loop", !.i = @ + 1,
                     !.report_sections = Append(@, create_source_analysis(s.i, result))]
      [] s.pc = "llm_conclusion" ->
           [s EXCEPT !.pc = "status_metadata",
                     !.report_sections =
                         Append(@, create_conclusion(s.query,
                                       s.msg.data.extracted_content, result))]

\* A generator without its try/except: a failing ollama.chat leaves it.
Synth_after_llm_unguarded(s, result) ==
    IF result # "raise" THEN Synth_llm_section(s, result) ELSE Synth_raise(s, "llm")

\* As above, with the source analysis sections dropped from the report.
Synth_after_llm_no_sources(s, result) ==
    IF s.pc = "llm_source" THEN [s EXCEPT !.pc = "source_loop", !.i = @ + 1]
    ELSE Synth_llm_section(s, result)

\* ollama.chat returned or raised: either way the generator returns a
\* section text.
Synth_after_llm(s, result) == Synth_llm_section(s, result)

SynthLlmReturn ==
    /\ loop = "synthesis_agent"
    /\ synth.pc \in {"llm_introduction", "llm_source", "llm_conclusion"}
    /\ \E result \in LlmResults : synth' = Synth_after_llm(synth, result)
    /\ UNCHANGED <<loop, traffic, pending, search, api, orch, dash>>

\* Lines 249-255 and 257-268; the inputs carry no "search_results" list, so
\* len(search_results) is 0.
create_methodology(ec) ==
    <<"##", "Research", "Methodology", "yielding", "0", "results",
      "from", ToString(Len(Successful(ec))), "sources">>

create_metadata(ec) ==
    <<"##", "Research", "Metadata", "Sources", "Analyzed:",
      ToString(Len(Successful(ec))), "Search", "Results:", "0">>

\* Line 108
build_full_report(query, sections) ==
    <<"#", "Research", "Report:", query>> \o Join(sections)

\* Lines 102-110: methodology, metadata and the full report.  _create_metadata
\* splits the content of every successful entry (line 259), which raises on a
\* None content.
SynthBuildReport ==
    /\ loop \in {"idle", "synthesis_agent"}
    /\ synth.pc = "build_report"
    /\ LET ec == synth.msg.data.extracted_content
           secs == synth.report_sections
                     \o <<create_methodology(ec), create_metadata(ec)>>
       IN synth' = IF "nocontent" \in Range(ec) THEN Synth_raise(synth, "data")
                   ELSE [synth EXCEPT
                           !.pc = "status_complete",
                           !.report_sections = secs,
                           !.full_report = build_full_report(synth.query, secs)]
    /\ loop' = "synthesis_agent"
    /\ UNCHANGED <<traffic, pending, search, api, orch, dash>>

\* Lines 116-133: the DataSubmit carrying the report.
Synth_data_message(s) ==
    create_message("synthesis_agent", orchestrator_id, None, DATA_SUBMIT,
        [data_type |-> "synthesis_report",
         data |-> [report_content |-> s.full_report,
                   word_count |-> WordCount(s.full_report),
                   sections |-> Len(s.report_sections),
                   sources_analyzed |->
                       Len(Successful(s.msg.data.extracted_content)),
                   query |-> s.query],
         source |-> "ollama_synthesis",
         task_id |-> s.task_id])

\* The completion log addressed to the orchestrator's queue as well.
Synth_log_message_direct(s) ==
    create_message("synthesis_agent", orchestrator_id, "logs", LOG_BROADCAST,
        [level |-> "INFO",
         message |-> <<"Research", "report", "synthesized:">>,
         component |-> "synthesis_agent"])

\* Lines 137-145: the completion log, broadcast on the topic "logs".
Synth_log_message(s) ==
    create_message("synthesis_agent", None, "logs", LOG_BROADCAST,
        [level |-> "INFO",
         message |-> <<"Research", "report", "synthesized:",
                       ToString(WordCount(s.full_report)), "words,",
                       ToString(Len(s.msg.data.extracted_content)), "sources">>,
         component |-> "synthesis_agent"])

\* Line 134: await self.send_message(data_message)
SynthSendReport ==
    /\ loop \in {"idle", "synthesis_agent"}
    /\ synth.pc = "send_report"
    /\ synth' \in Synth_send_outcomes(synth, Synth_data_message(synth), "send_log")
    /\ loop' = "idle"
    /\ UNCHANGED <<traffic, pending, search, api, orch, dash>>

\* Line 146: await self.send_message(log_message)
SynthSendLog ==
    /\ loop \in {"idle", "synthesis_agent"}
    /\ synth.pc = "send_log"
    /\ synth' \in Synth_send_outcomes(synth, Synth_log_message(synth), "done")
    /\ loop' = "idle"
    /\ UNCHANGED <<traffic, pending, search, api, orch, dash>>

\* The error text handed to _send_error_status at each place.
Synth_error_text(s) ==
    CASE s.pc = "noquery_send" -> <<"No", "research", "query", "provided">>
      [] s.pc = "except_send" -> <<"Synthesis", "failed:", s.raised>>
      [] s.pc = "assign_except_send" -> <<s.raised>>

\* _send_error_status called without the task id everywhere.
Synth_error_task_id_dropped(s) == None

\* The task id handed to _send_error_status: lines 72 and 151 pass task_id,
\* line 60 passes none.
Synth_error_task_id(s) ==
    IF s.pc = "assign_except_send" THEN None ELSE s.task_id

\* Lines 72, 151 and 60: await self._send_error_status(...).  After it line
\* 73 returns, and so do the two except blocks.
SynthSendError ==
    /\ loop \in {"idle", "synthesis_agent"}
    /\ synth.pc \in {"noquery_send", "except_send", "assign_except_send"}
    /\ synth' \in Synth_send_outcomes(
                     synth,
                     error_status_message(Synth_error_text(synth),
                                          Synth_error_task_id(synth)),
                     "done")
    /\ loop' = "idle"
    /\ UNCHANGED <<traffic, pending, search, api, orch, dash>>

\* handle_message has returned; the dispatch loop waits for the next message.
SynthReturn ==
    /\ loop \in {"idle", "synthesis_agent"}
    /\ synth.pc = "done"
    /\ ~synth.escaped
    /\ synth' = SynthIdle
    /\ loop' = "idle"
    /\ UNCHANGED <<traffic, pending, search, api, orch, dash>>

(* ------------------------------- the bus -------------------------------- *)
\* Some sender publishes a message to an agent's queue.
Deliver ==
    /\ \E a \in Agents :
         /\ InputsOf(a) # {}
         /\ pending[a] < MaxPending
         /\ pending' = [pending EXCEPT ![a] = @ + 1]
    /\ UNCHANGED <<loop, traffic, search, synth, api, orch, dash>>

(* ============================ async_main.py ============================= *)

\* Lines 70-78: the agents initialize_system builds, in list order.
AgentList ==
    <<"orchestrator", "search_agent", "extraction_agent", "fact_checker_agent",
      "synthesis_agent", "file_save_agent", "logger_agent">>

AgentIds == Range(AgentList)

\* Calls of initialize_system, numbered in the order they are made; call 1 is
\* the task startup_event creates.
MaxCalls == 2
Calls == 1..MaxCalls

\* How many start() calls may raise in one run.
MaxStartFailures == 1

\* POST /research bodies: ResearchRequest(query, task_id = "default_task").
\* The requests of a run are numbered in arrival order.
MaxRequests == 2
Requests == 1..MaxRequests
Queries == {"q1", "q2"}
RequestTaskIds == {Absent, "t1"}

\* streamlit_app.py lines 12-16: the body the dashboard posts: the query alone.
trigger_research(query) == [query |-> query, task_id |-> Absent]

\* The bodies clients post: the dashboard's, and one naming a task_id.
RequestBodies ==
    { trigger_research(q) : q \in Queries }
    \cup { [query |-> q, task_id |-> t] : q \in Queries, t \in RequestTaskIds }

NoRequest ==
    [state |-> "none", body |-> trigger_research(None),
     query |-> None, task_id |-> None, status_code |-> 0,
     response |-> [status |-> None, task_id |-> None, query |-> None],
     background |-> "none", start_research |-> <<>>]

\* Lines 32-37: `state`.  Beside it: where each initialize_system call stands
\* (`init`), the RabbitMQBus object each call created (`bus`: "none",
\* "created", "connected" or "failed"), start() of each agent object each call
\* built (`start`), and the POST /research requests made so far.
\* state["message_bus"] holds the number of the call whose bus object it is.
NoBus == 0

\* Lines 71-77: an agent object: its id, the call that built it and the bus
\* object it was given (state["message_bus"] at that moment).
Agent(id, c, bus) == [agent_id |-> id, call |-> c, message_bus |-> bus]

\* Line 35: state["orchestrator"] before it is set.
NoAgent == Agent(None, 0, NoBus)

ApiInit ==
    [message_bus |-> NoBus, agents |-> <<>>,
     orchestrator |-> NoAgent, initialized |-> FALSE,
     init |-> [c \in Calls |-> "not_called"],
     bus |-> [c \in Calls |-> "none"],
     start |-> [c \in Calls |-> [a \in AgentIds |-> "not_called"]],
     requests |-> [r \in Requests |-> NoRequest]]

\* Lines 88-91: startup_event creates the initialize_system task.
StartupEvent ==
    /\ api.init[1] = "not_called"
    /\ api' = [api EXCEPT !.init[1] = "created"]
    /\ UNCHANGED <<loop, traffic, pending, search, synth, orch, dash>>

\* A further call of initialize_system by some other caller.
CallInitializeSystem ==
    /\ \E c \in Calls \ {1} :
         /\ api.init[c] = "not_called"
         /\ api.init[c - 1] # "not_called"
         /\ api' = [api EXCEPT !.init[c] = "created"]
    /\ UNCHANGED <<loop, traffic, pending, search, synth, orch, dash>>

\* Lines 52-65: a call runs up to `await state["message_bus"].connect()`, or
\* returns at once when state["initialized"] is set.
initialize_system_begin(a, c) ==
    IF a.initialized THEN [a EXCEPT !.init[c] = "returned"]
    ELSE [a EXCEPT !.message_bus = c, !.bus[c] = "created",
                   !.init[c] = "connecting"]

InitializeSystem ==
    /\ \E c \in Calls :
         /\ api.init[c] = "created"
         /\ api' = initialize_system_begin(api, c)
    /\ UNCHANGED <<loop, traffic, pending, search, synth, orch, dash>>

\* Lines 65-81: connect() returned True: the agents are built and
\* asyncio.gather starts start() of each.
initialize_system_connected(a, c) ==
    [a EXCEPT !.bus[c] = "connected",
              !.agents = [k \in 1..Len(AgentList) |->
                             Agent(AgentList[k], c, a.message_bus)],
              !.start[c] = [id \in AgentIds |-> "running"],
              !.init[c] = "gathering"]

\* Lines 65-66 and 85-86: connect() returned False or raised: the except
\* block logs and the call ends.
initialize_system_refused(a, c) ==
    [a EXCEPT !.bus[c] = "failed", !.init[c] = "failed"]

InitConnected ==
    /\ \E c \in Calls :
         /\ api.init[c] = "connecting"
         /\ \/ api' = initialize_system_connected(api, c)
            \/ api' = initialize_system_refused(api, c)
    /\ UNCHANGED <<loop, traffic, pending, search, synth, orch, dash>>

\* The start() calls that have raised so far.
StartFailures(a) ==
    Cardinality({ p \in Calls \X AgentIds : a.start[p[1]][p[2]] = "raised" })

\* start() of one agent completes or raises.
AgentStart ==
    /\ \E c \in Calls, id \in AgentIds :
         /\ api.start[c][id] = "running"
         /\ \E result \in {"completed", "raised"} :
              /\ result = "raised" => StartFailures(api) < MaxStartFailures
              /\ api' = [api EXCEPT !.start[c][id] = result]
    /\ UNCHANGED <<loop, traffic, pending, search, synth, orch, dash>>

\* Lines 81-84: gather returns once every start() has completed.
InitGathered ==
    /\ \E c \in Calls :
         /\ api.init[c] = "gathering"
         /\ \A id \in AgentIds : api.start[c][id] = "completed"
         /\ api' = [api EXCEPT !.orchestrator = api.agents[1],
                               !.initialized = TRUE,
                               !.init[c] = "returned"]
    /\ UNCHANGED <<loop, traffic, pending, search, synth, orch, dash>>

\* Lines 81 and 85-86: gather raises the first exception of a start(); the
\* except block logs it.  Nothing is stopped or closed.
InitGatherRaised ==
    /\ \E c \in Calls :
         /\ api.init[c] = "gathering"
         /\ \E id \in AgentIds : api.start[c][id] = "raised"
         /\ api' = [api EXCEPT !.init[c] = "failed"]
    /\ UNCHANGED <<loop, traffic, pending, search, synth, orch, dash>>

\* The probe answering from the agent list instead of state["initialized"].
health_on_agents(a) ==
    [status |-> IF a.agents # <<>> THEN "healthy" ELSE "initializing",
     agents_active |-> Len(a.agents),
     orchestrator_ready |-> a.orchestrator # NoAgent]

\* Lines 99-105: GET /health reads `state`.
health(a) ==
    [status |-> IF a.initialized THEN "healthy" ELSE "initializing",
     agents_active |-> Len(a.agents),
     orchestrator_ready |-> a.orchestrator # NoAgent]

\* The guard with the agent list in place of the orchestrator.
research_ready_agents(a) == a.agents # <<>>

\* Line 109: `if not state["orchestrator"]` decides between 503 and acceptance.
research_ready(a) == a.orchestrator # NoAgent

\* Lines 107-119: POST /research.
start_research(a, r, query, task_id) ==
    IF ~research_ready(a)
    THEN [a EXCEPT !.requests[r] =
            [NoRequest EXCEPT !.state = "rejected", !.query = query,
                              !.task_id = task_id, !.status_code = 503]]
    ELSE [a EXCEPT !.requests[r] =
            [NoRequest EXCEPT
               !.state = "accepted", !.query = query, !.task_id = task_id,
               !.status_code = 200,
               !.response = [status |-> "task_received", task_id |-> task_id,
                             query |-> query],
               !.background = "scheduled"]]

\* A client posts the next request; a missing task_id takes the default of
\* line 41.  The server answers requests once startup_event has run.
PostResearch ==
    /\ api.init[1] # "not_called"
    /\ \E r \in Requests :
         /\ api.requests[r].state = "none"
         /\ \A q \in 1..(r - 1) : api.requests[q].state # "none"
         /\ \E body \in RequestBodies :
              api' = [start_research(api, r, body.query,
                                     Get(body.task_id, "default_task"))
                        EXCEPT !.requests[r].body = body]
    /\ UNCHANGED <<loop, traffic, pending, search, synth, orch, dash>>

\* Line 113: the arguments add_task was given for the orchestrator's
\* start_research: request.query, and no task_id.
background_call(q) == [query |-> q.query, task_id |-> Absent]

\* Line 113: after the response went out the background task calls
\* state["orchestrator"].start_research(request.query).
BackgroundTask ==
    /\ \E r \in Requests :
         /\ api.requests[r].background = "scheduled"
         /\ api' = [api EXCEPT
                      !.requests[r].background = "finished",
                      !.requests[r].start_research =
                          Append(@, background_call(api.requests[r]))]
    /\ UNCHANGED <<loop, traffic, pending, search, synth, orch, dash>>

ApiNext ==
    \/ StartupEvent
    \/ InitializeSystem
    \/ InitConnected
    \/ AgentStart
    \/ InitGathered
    \/ InitGatherRaised
    \/ PostResearch
    \/ BackgroundTask

(* ============================ the orchestrator ========================== *)
\* AsyncOrchestratorAgent (src/agents/async_orchestrator.py) is imported by
\* async_main.py line 20; its task state machine is the one of section 4.4.

\* How many StatusUpdates a task's status_log takes in a run.
MaxLog == 1

\* The task ids start_research gives out, in this order.
TaskNames == <<"task1", "task2">>
TaskIds == Range(TaskNames)

\* The items of a search result set, each the source of one extraction.
Items == <<"item1", "item2">>
ItemSources == Range(Items)

\* The stages in their order; Failed stands beside the order.
Stages ==
    <<"Created", "Searching", "Extracting", "FactChecking", "Synthesizing",
      "Saving", "Completed">>
StageRank(stage) == CHOOSE k \in 1..Len(Stages) : Stages[k] = stage
Terminal == {"Completed", "Failed"}

DataTypes ==
    {"search_results", "extracted_content", "fact_check", "synthesis_report",
     "file_saved"}

\* The stage whose completion a DataSubmit of the data type reports.
StageOf(data_type) ==
    CASE data_type = "search_results" -> "Searching"
      [] data_type = "extracted_content" -> "Extracting"
      [] data_type = "fact_check" -> "FactChecking"
      [] data_type = "synthesis_report" -> "Synthesizing"
      [] data_type = "file_saved" -> "Saving"

\* Section 3, Task.  `stages` is the sequence of stages recorded, `sent` the
\* messages the orchestrator sent for the task.
NoTask ==
    [stage |-> "none", query |-> None, collected |-> [d \in DataTypes |-> <<>>],
     expected |-> 0, status_log |-> <<>>, stages |-> <<>>, reason |-> <<>>,
     sent |-> <<>>]

\* The task table, the message_ids recorded, and the kind of the last arrival
\* that was acknowledged and ignored: "redelivery", or "late" for a message
\* of a task in a terminal stage.
OrchInit ==
    [tasks |-> [t \in TaskIds |-> NoTask], processed |-> {},
     ignored |-> "none"]

\* Inbound DataSubmit messages; `items` is the size of a search result set.
\* message_id is unique per message.
OrchDataSubmit(data_type, task_id, source, items) ==
    [msg_type |-> DATA_SUBMIT,
     message_id |-> <<data_type, task_id, source, items>>,
     data_type |-> data_type, task_id |-> task_id, source |-> source,
     items |-> items]

OrchDataSubmits ==
    { OrchDataSubmit("search_results", t, "semantic_scholar", n) :
        t \in TaskIds \cup {"unknown"}, n \in 0..Len(Items) }
    \cup { OrchDataSubmit("extracted_content", t, src, 0) :
        t \in TaskIds, src \in ItemSources }
    \cup { OrchDataSubmit(d, t, d, 0) :
        d \in {"fact_check", "synthesis_report", "file_saved"}, t \in TaskIds }

OrchStatusUpdates ==
    { [msg_type |-> STATUS_UPDATE, task_id |-> t, status |-> st] :
        t \in TaskIds \cup {"unknown"},
        st \in {<<"synthesis_starting">>, <<"synthesis_failed:", "error">>} }

\* An explicit failure status.
IsFailure(status) == Head(status) = "synthesis_failed:"

\* The TaskAssign the orchestrator sends a worker.
OrchAssign(receiver, task_type, task_id, what) ==
    [receiver_id |-> receiver, msg_type |-> TASK_ASSIGN, task_type |-> task_type,
     task_id |-> task_id, what |-> what]

\* The task enters a stage: the stage is recorded.
EnterStage(task, stage) ==
    [task EXCEPT !.stage = stage, !.stages = Append(@, stage)]

\* Any stage -> Failed, the reason recorded verbatim.
FailTask(task, reason) ==
    [EnterStage(task, "Failed") EXCEPT !.reason = reason]

RECURSIVE ExtractAssignments(_, _)
\* Searching -> Extracting: one TaskAssign{extract} per item of the result set.
ExtractAssignments(task_id, n) ==
    IF n = 0 THEN <<>>
    ELSE Append(ExtractAssignments(task_id, n - 1),
                OrchAssign("extraction_agent", "extract", task_id, Items[n]))

\* The join of the Extracting stage: the received count has reached
\* `expected`; the aggregate goes on to fact checking.
JoinExtraction(o, t) ==
    IF Len(o.tasks[t].collected["extracted_content"]) = o.tasks[t].expected
    THEN [o EXCEPT !.tasks[t] =
                       [EnterStage(@, "FactChecking") EXCEPT
                          !.sent = Append(@, OrchAssign("fact_checker_agent",
                                                        "fact_check", t, "all"))]]
    ELSE o

\* A DataSubmit already recorded: the same message_id, or its source
\* already collected for the data type of the task.
Orch_never_recorded(o, m) == FALSE

Orch_already_recorded(o, m) ==
    \/ m.message_id \in o.processed
    \/ m.source \in Range(o.tasks[m.task_id].collected[m.data_type])

\* A recorded DataSubmit advances the task by the transition of its stage.
Orch_advance(o, m) ==
    LET t == m.task_id
        o1 == [o EXCEPT !.processed = @ \cup {m.message_id},
                        !.tasks[t].collected[m.data_type] = Append(@, m.source)]
    IN CASE m.data_type = "search_results" ->
              JoinExtraction(
                  [o1 EXCEPT !.tasks[t] =
                      [EnterStage(@, "Extracting") EXCEPT
                         !.expected = m.items,
                         !.sent = @ \o ExtractAssignments(t, m.items)]], t)
         [] m.data_type = "extracted_content" -> JoinExtraction(o1, t)
         [] m.data_type = "fact_check" ->
              [o1 EXCEPT !.tasks[t] =
                  [EnterStage(@, "Synthesizing") EXCEPT
                     !.sent = Append(@, OrchAssign("synthesis_agent",
                                         "synthesize_research", t, "all"))]]
         [] m.data_type = "synthesis_report" ->
              [o1 EXCEPT !.tasks[t] =
                  [EnterStage(@, "Saving") EXCEPT
                     !.sent = Append(@, OrchAssign("file_save_agent",
                                         "save_report", t, "all"))]]
         [] m.data_type = "file_saved" ->
              [o1 EXCEPT !.tasks[t] = EnterStage(@, "Completed")]

\* Failed is reachable from any non-terminal stage only.
Orch_can_fail_always(task) == task.stage # "none"

Orch_can_fail(task) == task.stage \notin Terminal \cup {"none"}

\* The orchestrator's handling of a DataSubmit: a message of a task the table
\* does not hold is dropped; a redelivery is acknowledged and changes nothing;
\* a late arrival for a task in a terminal stage is acknowledged and ignored;
\* so is a submission of another stage than the one the task is in.
Orch_handle_data(o, m) ==
    IF m.task_id \notin TaskIds THEN o
    ELSE IF o.tasks[m.task_id].stage = "none" THEN o
    ELSE IF Orch_already_recorded(o, m) THEN [o EXCEPT !.ignored = "redelivery"]
    ELSE IF o.tasks[m.task_id].stage \in Terminal
         THEN [o EXCEPT !.ignored = "late"]
    ELSE IF StageOf(m.data_type) # o.tasks[m.task_id].stage THEN o
    ELSE Orch_advance(o, m)

\* The orchestrator's handling of a StatusUpdate: it is appended to the
\* status_log and never changes the stage, except that an explicit failure
\* status fails a task that is not in a terminal stage.
Orch_handle_status(o, m) ==
    IF m.task_id \notin TaskIds THEN o
    ELSE IF o.tasks[m.task_id].stage = "none" THEN o
    ELSE LET o1 == [o EXCEPT !.tasks[m.task_id].status_log = Append(@, m.status)]
         IN IF ~IsFailure(m.status) THEN o1
            ELSE IF Orch_can_fail(o.tasks[m.task_id])
                 THEN [o1 EXCEPT !.tasks[m.task_id] = FailTask(@, m.status)]
            ELSE [o1 EXCEPT !.ignored = "late"]

\* start_research(query): the task is created and accepted, and the search
\* agent is assigned the web search.
Orch_start_research(o, t, query) ==
    [o EXCEPT !.tasks[t] =
        [EnterStage(EnterStage([NoTask EXCEPT !.query = query], "Created"),
                    "Searching") EXCEPT
           !.sent = <<OrchAssign("search_agent", "web_search", t, query)>>]]

\* The stage's time budget ran out.
Orch_stage_timeout(o, t) ==
    IF Orch_can_fail(o.tasks[t])
    THEN [o EXCEPT !.tasks[t] =
            [FailTask(@, <<"stage_timeout:", o.tasks[t].stage>>) EXCEPT
               !.sent = Append(@, [receiver_id |-> None, msg_type |-> LOG_BROADCAST,
                                   task_type |-> "none", task_id |-> t,
                                   what |-> "stage_timeout"])]]
    ELSE o

OrchStartResearch ==
    /\ \E k \in 1..Len(TaskNames) :
         /\ orch.tasks[TaskNames[k]].stage = "none"
         /\ \A j \in 1..(k - 1) : orch.tasks[TaskNames[j]].stage # "none"
         /\ orch' = Orch_start_research(orch, TaskNames[k], "q1")
    /\ UNCHANGED <<loop, traffic, pending, search, synth, api, dash>>

\* The bus delivers a DataSubmit, for the first time or again.
OrchReceiveData ==
    /\ \E m \in OrchDataSubmits : orch' = Orch_handle_data(orch, m)
    /\ UNCHANGED <<loop, traffic, pending, search, synth, api, dash>>

OrchReceiveStatus ==
    /\ \E m \in OrchStatusUpdates :
         /\ m.task_id \in TaskIds =>
              Len(orch.tasks[m.task_id].status_log) < MaxLog
         /\ orch' = Orch_handle_status(orch, m)
    /\ UNCHANGED <<loop, traffic, pending, search, synth, api, dash>>

\* The timer armed on entering a stage fires.
OrchStageTimeout ==
    /\ \E t \in TaskIds :
         /\ orch.tasks[t].stage \notin {"none", "Created"}
         /\ orch' = Orch_stage_timeout(orch, t)
    /\ UNCHANGED <<loop, traffic, pending, search, synth, api, dash>>

OrchNext ==
    \/ OrchStartResearch
    \/ OrchReceiveData
    \/ OrchReceiveStatus
    \/ OrchStageTimeout

(* ============================ streamlit_app.py ========================== *)

\* Modification times of the files; 0 stands for "no such file".
MaxMtime == 2

\* File names a reports directory may hold: prefix, stem and suffix.
FileName(prefix, stem, suffix) == [prefix |-> prefix, stem |-> stem, suffix |-> suffix]

FileNames ==
    {FileName("research_report_", "a", ".md"),
     FileName("research_report_", "b", ".md"),
     FileName("research_report_", "c", ".txt"),
     FileName("notes_", "a", ".md")}

\* Line 9: REPORTS_DIR: whether it exists, and the mtime of each file in it.
ReportsDirs ==
    { [exists |-> e, mtime |-> f] :
        e \in BOOLEAN, f \in [FileNames -> 0..MaxMtime] }

NoReportsDir == [exists |-> FALSE, mtime |-> [n \in FileNames |-> 0]]

\* The viewer: the directory, the directory as it was before the last call,
\* the last call and what list_reports and read_report last returned.
DashIdle ==
    [fs |-> NoReportsDir, before |-> NoReportsDir, call |-> "none",
     files |-> <<>>, content |-> <<>>]

\* Line 27: the pattern "research_report_*.md".
Matches(name) == name.prefix = "research_report_" /\ name.suffix = ".md"

\* Line 27: REPORTS_DIR.glob(...) yields the matching files in directory
\* order, `order` being the order the file system lists the names in.
glob(fs, order) ==
    SelectSeq(order, LAMBDA n : fs.mtime[n] # 0 /\ Matches(n))

\* The orders a file system may list the names in.
DirectoryOrders ==
    { o \in [1..Cardinality(FileNames) -> FileNames] : Range(o) = FileNames }

\* The key order of sorted(): by st_mtime, descending under reverse=True.
KeyBefore(p, q, fs, reverse) ==
    IF reverse THEN fs.mtime[p] >= fs.mtime[q] ELSE fs.mtime[p] <= fs.mtime[q]

\* sorted() places x behind the elements whose key comes before or equals
\* its own.
InsertSorted(x, sorted, fs, reverse) ==
    LET n == Cardinality({ i \in 1..Len(sorted) :
                             KeyBefore(sorted[i], x, fs, reverse) })
    IN SubSeq(sorted, 1, n) \o <<x>> \o SubSeq(sorted, n + 1, Len(sorted))

RECURSIVE StableSort(_, _, _)
\* Python's sorted: stable, equal keys keep the order they came in.
StableSort(seq, fs, reverse) ==
    IF seq = <<>> THEN <<>>
    ELSE InsertSorted(seq[Len(seq)],
                      StableSort(SubSeq(seq, 1, Len(seq) - 1), fs, reverse),
                      fs, reverse)

\* sorted() without reverse=True: oldest first.
sorted_by_mtime_ascending(paths, fs) == StableSort(paths, fs, FALSE)

\* Lines 26-30: sorted(..., key=lambda p: p.stat().st_mtime, reverse=True).
sorted_by_mtime(paths, fs) == StableSort(paths, fs, TRUE)

\* Lines 21-31: list_reports.
list_reports(fs, order) ==
    IF ~fs.exists THEN <<>>
    ELSE sorted_by_mtime(glob(fs, order), fs)

\* Lines 34-38: read_report: the text, or the message of the except branch.
read_report(fs, path, readable) ==
    IF fs.exists /\ fs.mtime[path] # 0 /\ readable
    THEN <<"text of", path.stem>>
    ELSE <<"Failed to read report:", path.stem>>

\* Line 75: main lists the reports.
ListReports ==
    /\ \E order \in DirectoryOrders :
         dash' = [dash EXCEPT !.before = dash.fs, !.call = "list_reports",
                              !.files = list_reports(dash.fs, order)]
    /\ UNCHANGED <<loop, traffic, pending, search, synth, api, orch>>

\* Lines 87-88: main reads the report selected among those listed.
ReadReport ==
    /\ dash.call \in {"list_reports", "read_report"}
    /\ \E path \in Range(dash.files), readable \in BOOLEAN :
         dash' = [dash EXCEPT !.before = dash.fs, !.call = "read_report",
                              !.content = read_report(dash.fs, path, readable)]
    /\ UNCHANGED <<loop, traffic, pending, search, synth, api, orch>>

DashNext ==
    \/ ListReports
    \/ ReadReport

Init ==
    /\ loop = "idle"
    /\ traffic \in {"search", "synthesis", "both"}
    /\ pending = [a \in Agents |-> 0]
    /\ search = SearchIdle
    /\ synth = SynthIdle
    /\ api = ApiInit
    /\ orch = OrchInit
    /\ dash = DashIdle

Next ==
    \/ Deliver
    \/ SearchReceive
    \/ SearchResponse
    \/ SearchSleep
    \/ SearchRetry
    \/ SearchSend
    \/ SearchReturn
    \/ SynthReceive
    \/ SynthSendStatus
    \/ SynthCallLlm
    \/ SynthSourceLoop
    \/ SynthLlmReturn
    \/ SynthBuildReport
    \/ SynthSendReport
    \/ SynthSendLog
    \/ SynthSendError
    \/ SynthReturn

Spec == Init /\ [][Next]_vars

\* The front door alone: no agent traffic.
ApiSpecInit ==
    /\ loop = "idle"
    /\ traffic = "none"
    /\ pending = [a \in Agents |-> 0]
    /\ search = SearchIdle
    /\ synth = SynthIdle
    /\ api = ApiInit
    /\ orch = OrchInit
    /\ dash = DashIdle

ApiSpec == ApiSpecInit /\ [][ApiNext]_vars

\* initialize_system under further calls, beside the one of startup_event.
InitCallsNext ==
    \/ StartupEvent
    \/ CallInitializeSystem
    \/ InitializeSystem
    \/ InitConnected
    \/ AgentStart
    \/ InitGathered
    \/ InitGatherRaised

InitCallsSpec == ApiSpecInit /\ [][InitCallsNext]_vars

\* The orchestrator alone, fed by the bus.
OrchSpec == ApiSpecInit /\ [][OrchNext]_vars

\* The dashboard's viewer over any reports directory: a directory that does
\* not exist holds no file.
DashSpecInit ==
    /\ loop = "idle"
    /\ traffic = "none"
    /\ pending = [a \in Agents |-> 0]
    /\ search = SearchIdle
    /\ synth = SynthIdle
    /\ api = ApiInit
    /\ orch = OrchInit
    /\ \E fs \in ReportsDirs :
         /\ ~fs.exists => fs = NoReportsDir
         /\ dash = [DashIdle EXCEPT !.fs = fs, !.before = fs]

DashSpec == DashSpecInit /\ [][DashNext]_vars

(* ================================ claims ================================ *)

\* The search agent is handling (or has just handled) a valid
\* TaskAssign{web_search}.
SearchAssignment ==
    /\ search.msg.msg_type = TASK_ASSIGN
    /\ search.msg.valid
    /\ search.msg.kind = "web_search"

IsDataSubmit(m, data_type) ==
    /\ m.msg_type = DATA_SUBMIT
    /\ m.payload.data_type = data_type

IsStatusUpdate(m) == m.msg_type = STATUS_UPDATE

\* A StatusUpdate whose status begins with synthesis_failed.
IsFailureStatus(m) ==
    /\ m.msg_type = STATUS_UPDATE
    /\ Head(m.payload.status) = "synthesis_failed:"

\* C1: handling one TaskAssign{web_search}, the search agent issues at most
\* two requests; the second one is issued only after the first returned 429;
\* and when the first returned 429 the handling ends with exactly two
\* requests made, whatever the retry returned.
C1_OneBoundedRetry ==
    /\ search.requests <= 2
    /\ (search.requests = 2 => search.first_status = 429)
    /\ (search.pc = "done" /\ search.first_status = 429 => search.requests = 2)

\* The retry was answered 429 again and the handling ended after two requests.
C1_Witness ==
    /\ search.pc = "done"
    /\ search.first_status = 429
    /\ search.response.status_code = 429
    /\ search.requests = 2

\* C2: a handled TaskAssign{web_search} ends with a DataSubmit{search_results}
\* or with a failure StatusUpdate sent to the orchestrator, never with silence.
C2_FailureIsSignalled ==
    (search.pc = "done" /\ SearchAssignment) =>
        \E m \in Range(search.out) :
            IsDataSubmit(m, "search_results") \/ IsStatusUpdate(m)

\* C3: no exception leaves handle_message of the search agent or of the
\* synthesis agent, whatever the message and whatever fails.
C3_NoExceptionEscapes == ~search.escaped /\ ~synth.escaped

\* A TaskAssign to the synthesis agent after which every attempt to send the
\* error status failed too, and handle_message still returned.
C3_Witness ==
    /\ synth.pc = "done"
    /\ synth.path = "task_assign"
    /\ synth.raised # "none"
    /\ \E m \in Range(synth.tried) : IsFailureStatus(m)
    /\ synth.out = <<>>

\* The agent is inside its external call: requests.get, ollama.chat.
InExternalCall(a) ==
    IF a = "search_agent" THEN search.pc = "request"
    ELSE synth.pc \in {"llm_introduction", "llm_source", "llm_conclusion"}

\* The agent waits for a message and one is in its queue.
HasWork(a) ==
    /\ pending[a] > 0
    /\ IF a = "search_agent" THEN search.pc = "idle" ELSE synth.pc = "idle"

\* C4: while one agent is inside its external call, another agent with a
\* message in its queue can receive it.
C4_OthersRunDuringExternalCall ==
    /\ (InExternalCall("search_agent") /\ HasWork("synthesis_agent"))
           => ENABLED SynthReceive
    /\ (InExternalCall("synthesis_agent") /\ HasWork("search_agent"))
           => ENABLED SearchReceive

\* C5: an empty result set is submitted as DataSubmit{search_results} with no
\* error, and the report synthesized from that submission contains the
\* "no results" placeholder.
C5_EmptyResultPlaceholder ==
    /\ (/\ search.pc = "done"
        /\ search.response = Response(200, "empty")
        /\ search.raised # "send")
         => /\ search.raised = "none"
            /\ Len(search.out) = 1
            /\ IsDataSubmit(search.out[1], "search_results")
            /\ search.out[1].payload.data.content = NoPapersFound
    /\ \A m \in Range(synth.out) :
         (/\ IsDataSubmit(m, "synthesis_report")
          /\ synth.msg.msg_type = DATA_SUBMIT
          /\ synth.msg.data.content = NoPapersFound)
           => NoPapersFound \in Range(m.payload.data.report_content)

\* C6: every DataSubmit{synthesis_report} has word_count > 0, sections >= 4
\* and sections = 4 + sources_analyzed, sources_analyzed being the number of
\* extracted_content entries marked extraction_successful.
C6_ReportShape ==
    \A m \in Range(synth.out) :
        IsDataSubmit(m, "synthesis_report") =>
            LET d == m.payload.data IN
            /\ d.word_count > 0
            /\ d.sections >= 4
            /\ d.sections = 4 + d.sources_analyzed
            /\ d.sources_analyzed =
                 Cardinality({ k \in 1..Len(synth.msg.data.extracted_content) :
                     extraction_successful(synth.msg.data.extracted_content[k]) })

\* A report over a list with a successful and an unsuccessful entry.
C6_Witness ==
    \E m \in Range(synth.out) :
        /\ IsDataSubmit(m, "synthesis_report")
        /\ m.payload.data.sources_analyzed >= 1
        /\ "failed" \in Range(synth.msg.data.extracted_content)

\* A synthesis run has started: _synthesize_research_report was entered.
SynthStarted == synth.path # "none" /\ synth.task_id # None

\* The run failed: no query, or an exception in the try block.
SynthFailed == ~Truthy(synth.query) \/ synth.raised # "none"

\* The failure StatusUpdate of the run's task: synthesis_failed, progress 0.0
\* and the task's id.
IsFailureOfTask(m) ==
    /\ IsFailureStatus(m)
    /\ m.payload.progress = 0
    /\ m.payload.task_id = synth.task_id

\* C7 as stated: a started synthesis run that failed has sent the orchestrator
\* the failure StatusUpdate of its task.
C7_FailureStatusSent ==
    (synth.pc = "done" /\ SynthStarted /\ SynthFailed) =>
        \E m \in Range(synth.out) : IsFailureOfTask(m)

\* C7 amended: a started synthesis run that failed has handed the failure
\* StatusUpdate of its task to send_message, and that StatusUpdate was sent
\* unless its own send raised.
C7_FailureStatusAttempted ==
    (synth.pc = "done" /\ SynthStarted /\ SynthFailed) =>
        /\ \E m \in Range(synth.tried) :
              /\ IsFailureOfTask(m)
              /\ m.receiver_id = orchestrator_id
        /\ (\A m \in Range(synth.tried) :
               IsFailureStatus(m) => m \in Range(synth.out))
             => \E m \in Range(synth.out) : IsFailureOfTask(m)

\* A run that failed in the try block and whose failure status went out.
C7_Witness ==
    /\ synth.pc = "done"
    /\ SynthStarted
    /\ synth.raised # "none"
    /\ \E m \in Range(synth.out) : IsFailureOfTask(m)

\* C8: when no bus send raises and the input is well formed, a run ends with
\* the DataSubmit{synthesis_report} of 4 + sources_analyzed sections and
\* without a synthesis_failed status, whichever ollama.chat calls failed.
C8_LlmFailuresAbsorbed ==
    (/\ synth.pc = "done"
     /\ SynthStarted
     /\ Truthy(synth.query)
     /\ synth.raised \notin {"send", "data"})
      => /\ \E m \in Range(synth.out) :
               /\ IsDataSubmit(m, "synthesis_report")
               /\ m.payload.data.sections =
                    4 + Len(Successful(synth.msg.data.extracted_content))
         /\ \A m \in Range(synth.tried) : ~IsFailureStatus(m)

\* A report was submitted although the introduction, a source analysis and
\* the conclusion all fell back to their placeholder text.
C8_Witness ==
    /\ synth.pc = "done"
    /\ \E m \in Range(synth.out) :
         /\ IsDataSubmit(m, "synthesis_report")
         /\ {"investigates:", "Summary", "Based"}
               \subseteq Range(m.payload.data.report_content)

\* C9: a message whose payload fails validation is dropped: the agent sends
\* nothing in response and no exception leaves handle_message.
C9_InvalidPayloadDropped ==
    /\ (search.pc = "done" /\ search.msg.msg_type # "none" /\ ~search.msg.valid)
         => (search.out = <<>> /\ ~search.escaped)
    /\ (synth.pc = "done" /\ synth.msg.msg_type # "none" /\ ~synth.msg.valid)
         => (synth.out = <<>> /\ ~synth.escaped)

\* The bus is connected and start() of all seven agents has completed.
SwarmReady ==
    /\ api.message_bus # NoBus
    /\ api.bus[api.message_bus] = "connected"
    /\ Len(api.agents) = 7
    /\ \A k \in 1..Len(api.agents) :
          api.start[api.agents[k].call][api.agents[k].agent_id] = "completed"

\* C10: a POST /research is accepted only when the bus is connected and
\* start() of all seven agents has completed; a rejected one is answered 503
\* and never reaches start_research; an accepted one is answered
\* task_received with its job scheduled, not yet run, and the orchestrator's
\* start_research runs at most once for it, once when its background task
\* has finished.
C10_ResearchOnlyWhenReady ==
    /\ [](\A r \in Requests :
            LET q == api.requests[r] IN
            /\ q.state = "accepted" =>
                 /\ SwarmReady
                 /\ q.status_code = 200
                 /\ q.response.status = "task_received"
                 /\ q.background \in {"scheduled", "finished"}
                 /\ Len(q.start_research) =
                      (IF q.background = "finished" THEN 1 ELSE 0)
            /\ q.state = "rejected" =>
                 /\ q.status_code = 503
                 /\ q.background = "none"
                 /\ q.start_research = <<>>)
    /\ [][\A r \in Requests :
            (api.requests[r].state = "none" /\ api'.requests[r].state = "accepted")
              => /\ api'.requests[r].background = "scheduled"
                 /\ api'.requests[r].start_research = <<>>]_vars

\* One request came too early and was rejected, a later one was accepted and
\* its background task has called start_research.
C10_Witness ==
    /\ api.requests[1].state = "rejected"
    /\ api.requests[2].state = "accepted"
    /\ api.requests[2].background = "finished"
    /\ Len(api.requests[2].start_research) = 1

\* C11: the task_id acknowledged by POST /research is the task_id handed to
\* the orchestrator's start_research for that job.
C11_TaskIdReachesOrchestrator ==
    \A r \in Requests :
        api.requests[r].background = "finished" =>
            \E k \in 1..Len(api.requests[r].start_research) :
                api.requests[r].start_research[k].task_id
                    = api.requests[r].response.task_id

\* The DataSubmit and StatusUpdate messages among those sent.
TaskMessages(out) ==
    { m \in Range(out) : m.msg_type \in {DATA_SUBMIT, STATUS_UPDATE} }

\* C12: every DataSubmit and StatusUpdate a worker sends while handling a
\* valid assignment whose task_data carries a task_id bears that task_id.
C12_MessagesBearTaskId ==
    /\ (/\ search.msg.msg_type = TASK_ASSIGN
        /\ search.msg.valid
        /\ search.msg.data.task_id # Absent)
         => \A m \in TaskMessages(search.out) :
                m.payload.task_id = search.msg.data.task_id
    /\ (/\ synth.msg.msg_type = TASK_ASSIGN
        /\ synth.msg.valid
        /\ synth.msg.data.task_id # Absent)
         => \A m \in TaskMessages(synth.out) :
                m.payload.task_id = synth.msg.data.task_id

\* C13 as stated: GET /health reports "healthy" exactly when the bus is
\* connected and start() of all agents has completed, "initializing"
\* otherwise, and orchestrator_ready exactly when it reports "healthy".
C13_HealthyIffSwarmReady ==
    /\ health(api).status = (IF SwarmReady THEN "healthy" ELSE "initializing")
    /\ health(api).orchestrator_ready <=> (health(api).status = "healthy")

\* initialize_system has come back from its gather and returned.
InitReturned == \E c \in Calls : api.init[c] = "returned"

\* C13 amended: GET /health reports "healthy" exactly when initialize_system
\* has returned after gather, and then the bus is connected and start() of all
\* agents has completed; it reports "initializing" otherwise, also in the
\* interval between the last start() completing and gather returning;
\* orchestrator_ready is true exactly when status is "healthy".
C13_HealthyIffInitReturned ==
    /\ health(api).status = (IF InitReturned THEN "healthy" ELSE "initializing")
    /\ health(api).status = "healthy" => SwarmReady
    /\ (SwarmReady /\ health(api).status = "initializing")
         => \E c \in Calls : api.init[c] = "gathering"
    /\ health(api).orchestrator_ready <=> (health(api).status = "healthy")

\* The swarm is up and the probe says so.
C13_Witness ==
    /\ SwarmReady
    /\ health(api).status = "healthy"
    /\ health(api).orchestrator_ready
    /\ health(api).agents_active = 7

\* What GET /health answers while initialize_system is still at work: before
\* connect() has returned, and while gather waits for the start() calls.
InitializingResponses ==
    LET connecting == initialize_system_begin(ApiInit, 1)
        gathering == initialize_system_connected(connecting, 1)
    IN {health(ApiInit), health(connecting), health(gathering)}

\* C14: once initialize_system has given up (connect failed, or a start()
\* raised), GET /health answers something it never answers while the system
\* is still initializing, and it does not answer "healthy".
C14_FailureSurfaced ==
    (\E c \in Calls : api.init[c] = "failed") =>
        /\ health(api) \notin InitializingResponses
        /\ health(api).status # "healthy"

\* C15: when a call of initialize_system ended in failure, the bus connection
\* it opened is released and none of the agents it started is left running
\* or starting.
C15_FailedInitReleases ==
    \A c \in Calls :
        api.init[c] = "failed" =>
            /\ api.bus[c] # "connected"
            /\ \A id \in AgentIds : api.start[c][id] \notin {"running", "completed"}

\* The messages the two agents have created: those handed to send_message,
\* and the one the search agent is about to send.
CreatedMessages ==
    Range(search.out) \cup Range(synth.tried)
      \cup (IF search.pc = "send" THEN {Search_data_message(search)} ELSE {})

\* C16: every message the search or the synthesis agent creates has exactly
\* one addressing mode: DataSubmit and StatusUpdate go to the orchestrator's
\* queue with no topic, LogBroadcast to the topic "logs" with no receiver_id.
C16_OneAddressingMode ==
    \A m \in CreatedMessages :
        /\ (m.receiver_id = None) # (m.topic = None)
        /\ m.msg_type \in {DATA_SUBMIT, STATUS_UPDATE} =>
             (m.receiver_id = orchestrator_id /\ m.topic = None)
        /\ m.msg_type = LOG_BROADCAST =>
             (m.topic = "logs" /\ m.receiver_id = None)
        /\ m.msg_type \in {DATA_SUBMIT, STATUS_UPDATE, LOG_BROADCAST}

\* A run in which the synthesis agent has sent statuses, its report and the
\* log broadcast.
C16_Witness ==
    /\ \E m \in Range(synth.out) : m.msg_type = LOG_BROADCAST
    /\ \E m \in Range(synth.out) : m.msg_type = DATA_SUBMIT
    /\ \E m \in Range(synth.out) : m.msg_type = STATUS_UPDATE

\* C17: for every task_id the stages recorded are non-decreasing in the order
\* Created .. Completed, except for at most one transition into Failed, taken
\* from a non-terminal stage; Failed is terminal: nothing is recorded after
\* it, and the last stage recorded is the task's stage.
C17_StagesMonotone ==
    \A t \in TaskIds :
        LET h == orch.tasks[t].stages IN
        /\ \A i \in 1..(Len(h) - 1) :
              /\ h[i] \notin Terminal
              /\ h[i + 1] = "Failed" \/ StageRank(h[i]) <= StageRank(h[i + 1])
        /\ h # <<>> => h[Len(h)] = orch.tasks[t].stage
        /\ h = <<>> => orch.tasks[t].stage = "none"

\* A task failed while extracting, and a message that arrived for a task in
\* a terminal stage was acknowledged and ignored.
C17_Witness ==
    /\ orch.ignored = "late"
    /\ \E t \in TaskIds :
         orch.tasks[t].stages = <<"Created", "Searching", "Extracting", "Failed">>
    /\ \E t \in TaskIds : orch.tasks[t].stage \notin Terminal \cup {"none"}

\* C18: handling again a DataSubmit whose message_id was already recorded
\* leaves every task's collected map, expected and received counts, stage
\* and sent assignments unchanged.
C18_RedeliveryIdempotent ==
    \A m \in OrchDataSubmits :
        m.message_id \in orch.processed =>
            /\ Orch_handle_data(orch, m).tasks = orch.tasks
            /\ Orch_handle_data(orch, m).processed = orch.processed

\* A redelivery was acknowledged while a task waits in Extracting for the
\* second of two extractions.
C18_Witness ==
    /\ orch.ignored = "redelivery"
    /\ \E t \in TaskIds :
         /\ orch.tasks[t].stage = "Extracting"
         /\ orch.tasks[t].expected = 2
         /\ Len(orch.tasks[t].collected["extracted_content"]) = 1

\* The calls of initialize_system whose connect() succeeded.
ConnectedBuses == { c \in Calls : api.bus[c] = "connected" }

\* The calls that invoked start() of the agent with this id.
StartedBy(id) == { c \in Calls : api.start[c][id] # "not_called" }

\* C19: over any number of calls of initialize_system the bus is connected at
\* most once and start() is invoked at most once per agent, and a call made
\* after initialization completed returns without creating a bus.
C19_InitializedOnce ==
    /\ Cardinality(ConnectedBuses) <= 1
    /\ \A id \in AgentIds : Cardinality(StartedBy(id)) <= 1
    /\ \A c \in Calls :
          (api.init[c] = "returned" /\ api.bus[c] = "none") => api.initialized

\* The progress announcements of a synthesis run, in order.
ProgressStatuses ==
    <<[status |-> "synthesis_starting", progress |-> 10],
      [status |-> "creating_introduction", progress |-> 20],
      [status |-> "analyzing_sources", progress |-> 40],
      [status |-> "creating_synthesis", progress |-> 70],
      [status |-> "adding_metadata", progress |-> 90],
      [status |-> "synthesis_complete", progress |-> 100]>>

\* C20: in a synthesis run that reaches the report, the first six messages
\* sent are the StatusUpdates synthesis_starting .. synthesis_complete in this
\* order, with the strictly increasing progress 10, 20, 40, 70, 90, 100; the
\* DataSubmit{synthesis_report} is the seventh, right after
\* synthesis_complete, and the LogBroadcast comes after it.
C20_StatusOrder ==
    \A k \in 1..Len(synth.out) :
        /\ IsDataSubmit(synth.out[k], "synthesis_report") =>
             /\ k = Len(ProgressStatuses) + 1
             /\ \A j \in 1..(k - 1) :
                   /\ IsStatusUpdate(synth.out[j])
                   /\ synth.out[j].payload.status = <<ProgressStatuses[j].status>>
                   /\ synth.out[j].payload.progress = ProgressStatuses[j].progress
                   /\ j > 1 => synth.out[j].payload.progress
                                 > synth.out[j - 1].payload.progress
        /\ synth.out[k].msg_type = LOG_BROADCAST =>
             /\ k = Len(ProgressStatuses) + 2
             /\ IsDataSubmit(synth.out[k - 1], "synthesis_report")

\* A run that sent the six announcements, the report and the log.
C20_Witness ==
    /\ Len(synth.out) = 8
    /\ IsDataSubmit(synth.out[7], "synthesis_report")
    /\ synth.out[8].msg_type = LOG_BROADCAST
    /\ synth.out[6].payload.status = <<"synthesis_complete">>

\* C21: for one handled synthesis request the outcomes exclude each other: no
\* synthesis_failed StatusUpdate is sent after synthesis_complete or after
\* the DataSubmit{synthesis_report} of the same request.
C21_OutcomesExclusive ==
    \A j \in 1..Len(synth.out) :
        IsFailureStatus(synth.out[j]) =>
            \A k \in 1..(j - 1) :
                /\ ~IsDataSubmit(synth.out[k], "synthesis_report")
                /\ ~(/\ IsStatusUpdate(synth.out[k])
                     /\ synth.out[k].payload.status = <<"synthesis_complete">>)

\* C22: two research requests accepted through POST /research, and so two
\* posted by the dashboard, are acknowledged with distinct task_ids.
C22_DistinctTaskIds ==
    \A r1, r2 \in Requests :
        (/\ r1 # r2
         /\ api.requests[r1].state = "accepted"
         /\ api.requests[r2].state = "accepted"
         /\ api.requests[r1].body \in { trigger_research(q) : q \in Queries }
         /\ api.requests[r2].body \in { trigger_research(q) : q \in Queries })
          => api.requests[r1].response.task_id # api.requests[r2].response.task_id

\* The files of the reports directory named research_report_*.md.
ReportFiles(fs) ==
    { n \in FileNames :
        /\ fs.mtime[n] # 0
        /\ n.prefix = "research_report_"
        /\ n.suffix = ".md" }

\* C23: list_reports returns exactly the files of the reports directory named
\* research_report_*.md, each once, newest modification time first, and the
\* empty list when the directory does not exist; neither list_reports nor
\* read_report changes the directory or any file in it.
C23_ViewerReadOnlyOrdered ==
    /\ dash.call = "list_reports" =>
         /\ Range(dash.files) = ReportFiles(dash.fs)
         /\ Len(dash.files) = Cardinality(ReportFiles(dash.fs))
         /\ \A i, j \in 1..Len(dash.files) :
               i < j => dash.fs.mtime[dash.files[i]] >= dash.fs.mtime[dash.files[j]]
         /\ ~dash.fs.exists => dash.files = <<>>
    /\ dash.call \in {"list_reports", "read_report"} => dash.fs = dash.before

\* Two reports of different age were listed, beside files the pattern does
\* not match, and one of the reports was read.
C23_Witness ==
    /\ dash.call = "read_report"
    /\ Len(dash.files) = 2
    /\ dash.fs.mtime[dash.files[1]] > dash.fs.mtime[dash.files[2]]
    /\ \E n \in FileNames : dash.fs.mtime[n] # 0 /\ n \notin Range(dash.files)
    /\ Head(dash.content) = "text of"

====
